---------------------------- MODULE Spec2Model ----------------------------
(***************************************************************************)
(* GradOrientConvolutionLayer (caffe/layers/grad_orient_conv_layer.cpp):   *)
(* a convolution layer whose filters are meant to follow the local         *)
(* gradient orientation.  The layer is modelled as a state machine over    *)
(* its members (kernel_shape_, stride_, pad_, blobs_, intermediate_        *)
(* kernels_, gauss_kernel_, orientation_map_, intermediate_kernel_alphas_, *)
(* the bottom and top blobs) with one action per entry point: LayerSetUp,  *)
(* Reshape, Forward_cpu, Backward_cpu and the solver's weight update.      *)
(*                                                                         *)
(* Numbers.  Blob data are integers.  Real-valued quantities are kept in   *)
(* fixed point: the Gaussian stencil and the smoothed gradient in units of *)
(* 1/FixedOne, the orientation map in microradians, angles in whole        *)
(* degrees, alpha weights in units of 1/AlphaOne (the code divides by 90,  *)
(* so n/90 is exact), sines and cosines in units of 1/FixedOne.  Blob data *)
(* are functions on 0..n-1 so that the index arithmetic of the source is   *)
(* kept as written.                                                        *)
(*                                                                         *)
(* Specifications.  Spec runs a layer through its life; SpecSetup runs     *)
(* LayerSetUp over many configurations; SpecShape runs Reshape over many   *)
(* bottom shapes; SpecRot applies the rotation index mapping to one filter *)
(* plane; SpecAlpha applies the alpha brackets to one angle; SpecSmooth    *)
(* runs the forward pass over strides, pads and channel counts.            *)
(***************************************************************************)
EXTENDS Integers, Sequences, FiniteSets, TLC

VARIABLES
  pc,                          \* where the layer is in its life
  param,                       \* layer_param_.convolution_param() and preloaded blobs
  kernel_shape_, stride_, pad_,
  channels_, num_output_, group_, bias_term_,
  blobs_,                      \* <<weights[, bias]>>: records [shape, data, diff]
  intermediate_kernels_,       \* vector<Blob>: the rotated copies (data only)
  gauss_kernel_,               \* the stencil, data on 0..kernel_h*kernel_w-1
  num_, output_shape_,
  bottom,                      \* <<bottom[0], bottom[1]>>: records [shape, data, diff]
  top,                         \* <<top[0], top[1], top[2]>>:  records [shape, data]
  orientation_map_,            \* record [shape, data]
  intermediate_kernel_alphas_, \* record [shape, data]
  kernels_read,                \* what the last Forward read: [weight, kernels]
  iter,                        \* forward passes made so far
  rot,                         \* the rotation mapping applied to one plane
  alph                         \* the alpha builder applied to one angle

layerVars == <<pc, param, kernel_shape_, stride_, pad_, channels_, num_output_,
               group_, bias_term_, blobs_, intermediate_kernels_, gauss_kernel_,
               num_, output_shape_, bottom, top, orientation_map_,
               intermediate_kernel_alphas_, kernels_read, iter>>
pureVars == <<rot, alph>>
vars == <<layerVars, pureVars>>

(***************************************************************************)
(* Numbers and blobs                                                       *)
(***************************************************************************)

\* Dtype(1) of the fixed-point quantities.
FixedOne == 10000

\* An alpha weight of 1: the code computes weights as (angle - base)/90.
AlphaOne == 90

\* Parameterize in the future: num_rotations_ = 4.
num_rotations_ == 4

Abs(x) == IF x < 0 THEN -x ELSE x

\* C++ int division: the quotient is truncated toward zero.
TruncDiv(a, b) ==
  IF (a >= 0) = (b > 0) THEN Abs(a) \div Abs(b) ELSE -(Abs(a) \div Abs(b))

\* Mathematical floor of a/b for b > 0.
FloorDiv(a, b) == a \div b

\* Division rounded to the nearest integer (half away from zero), b > 0.
RoundDiv(a, b) ==
  IF a >= 0 THEN (2 * a + b) \div (2 * b) ELSE -((2 * (-a) + b) \div (2 * b))

Min(a, b) == IF a < b THEN a ELSE b
Max(a, b) == IF a > b THEN a ELSE b

RECURSIVE SumTo(_, _)
\* Sum of f[0] .. f[n-1].
SumTo(f, n) == IF n <= 0 THEN 0 ELSE f[n - 1] + SumTo(f, n - 1)

RECURSIVE Product(_)
Product(s) == IF s = <<>> THEN 1 ELSE Head(s) * Product(Tail(s))

\* Blob::count(): the product of the dimensions.
Count(shape) == Product(shape)

Zeros(n) == [i \in 0 .. n - 1 |-> 0]

Size(data) == Cardinality(DOMAIN data)

\* Blob::Reshape keeps the memory it has when the new count fits its
\* capacity (old contents stay) and otherwise takes fresh memory, which
\* SyncedMemory zero-fills on first use.
BlobReshape(blob, shape) ==
  [blob EXCEPT !.shape = shape,
               !.data = IF Count(shape) > Size(blob.data)
                        THEN Zeros(Count(shape)) ELSE blob.data]

EmptyBlob == [shape |-> <<>>, data |-> <<>>]


(***************************************************************************)
(* Alpha Field Builder: Forward_cpu, the four angle brackets               *)
(***************************************************************************)

\* AlphaPair with the two weights of the bracket [0, 90) exchanged.
AlphaPairSwapped(angle) ==
  IF angle >= -180 /\ angle < -90
    THEN [ch |-> <<2, 3>>, wt |-> <<AlphaOne - (angle + 180), angle + 180>>]
  ELSE IF angle >= -90 /\ angle < 0
    THEN [ch |-> <<3, 0>>, wt |-> <<AlphaOne - (angle + 90), angle + 90>>]
  ELSE IF angle >= 0 /\ angle < 90
    THEN [ch |-> <<0, 1>>, wt |-> <<angle, AlphaOne - angle>>]
  ELSE IF angle >= 90 /\ angle <= 180
    THEN [ch |-> <<1, 2>>, wt |-> <<AlphaOne - (angle - 90), angle - 90>>]
  ELSE [ch |-> <<>>, wt |-> <<>>]

\* The two alpha channels one location writes and the weights written, for
\* an angle in whole degrees; weights are in units of 1/AlphaOne.  An angle
\* outside [-180, 180] matches no bracket and nothing is written.
AlphaPair(angle) ==
  IF angle >= -180 /\ angle < -90
    THEN \* between 2 and 3: wght = (angle+180)/90
         [ch |-> <<2, 3>>, wt |-> <<AlphaOne - (angle + 180), angle + 180>>]
  ELSE IF angle >= -90 /\ angle < 0
    THEN \* between 3 and 0: wght = (angle+90)/90
         [ch |-> <<3, 0>>, wt |-> <<AlphaOne - (angle + 90), angle + 90>>]
  ELSE IF angle >= 0 /\ angle < 90
    THEN \* between 0 and 1: wght = angle/90
         [ch |-> <<0, 1>>, wt |-> <<AlphaOne - angle, angle>>]
  ELSE IF angle >= 90 /\ angle <= 180
    THEN \* between 1 and 2: wght = (angle-90)/90
         [ch |-> <<1, 2>>, wt |-> <<AlphaOne - (angle - 90), angle - 90>>]
  ELSE [ch |-> <<>>, wt |-> <<>>]

\* alphas[r_i] = ... at location (h, w) of batch element n: the alpha data
\* after the writes of one location.  r_i = ((i*H)+h)*W + w from the batch
\* element's base n*4*H*W.
AlphaWrite(data, n, h, w, H, W, angle) ==
  LET pair == AlphaPair(angle)
      r(i) == n * (4 * H * W) + ((i * H) + h) * W + w
  IN  IF pair.ch = <<>> THEN data
      ELSE [data EXCEPT ![r(pair.ch[1])] = pair.wt[1],
                        ![r(pair.ch[2])] = pair.wt[2]]

(***************************************************************************)
(* Rotated-Kernel Builder: Reshape, "Rotating counter clockwise"           *)
(***************************************************************************)

\* The index r the code reads for rotation i at destination (h, w) of a
\* KH x KW plane, as written (lines 327, 330, 333, 336).
SrcIndex(i, h, w, KH, KW) ==
  CASE i = 0 -> h * KW + w
    [] i = 1 -> w * KW + KH - h
    [] i = 2 -> (KH - h) * KW + KW - w
    [] i = 3 -> (KW - w) * KW + h

\* kernels[r]: `kernels` stays at the first plane of the weights, so r
\* indexes the whole weight buffer from its start; a read past its end is
\* out of bounds and yields whatever the memory holds (junk).
ReadKernel(kern, r, junk) ==
  IF r \in DOMAIN kern THEN kern[r] ELSE junk[r - Size(kern)]

\* What a read past the end of the weight buffer can return.
JunkVals == {0, 7}

\* The offsets past the end of a buffer that a rotation can read.
JunkOffsets(KW) == 0 .. KW

\* Rotated copy i of the weights kern of shape <<N, C, KH, KW>>: rot_kernel[i]
\* advances by one plane per (n, c); kernels does not.
RotatedKernel(i, kern, shape, junk) ==
  LET KH == shape[3]
      KW == shape[4]
  IN  [idx \in 0 .. Count(shape) - 1 |->
         LET q == idx % (KH * KW)
             h == q \div KW
             w == q % KW
         IN  ReadKernel(kern, SrcIndex(i, h, w, KH, KW), junk)]

RotatedKernels(kern, shape, junk) ==
  [i \in 1 .. num_rotations_ |-> RotatedKernel(i - 1, kern, shape, junk)]


(***************************************************************************)
(* Gaussian Kernel Builder: LayerSetUp, "Create the gaussian kernel"       *)
(***************************************************************************)

RECURSIVE ExpSeries(_, _, _, _)
\* Sum of the Taylor terms of exp(num/den) from term k on, term being the
\* k-th term in thousandths.
ExpSeries(term, k, num, den) ==
  IF term = 0 THEN 0
  ELSE term + ExpSeries((term * num) \div (den * k), k + 1, num, den)

\* exp(-num/den) in units of 1/FixedOne, for num >= 0 and den > 0.
ExpNeg(num, den) == RoundDiv(FixedOne * 1000, ExpSeries(1000, 1, num, den))

\* The entry the code computes at (h, w), before normalisation:
\*   exp(-(pow(h - kernel_h/2.0, 2) + pow(w - kernel_w/2.0, 2)) / (2 sigma^2))
\*     / (2 * 3.14159 * sigma^2),           sigma = (kernel_w + kernel_h)/12.
\* With D4 = (2h - kernel_h)^2 + (2w - kernel_w)^2 the exponent is
\* -18*D4/(kernel_w + kernel_h)^2 and the divisor 3.14159*(kw+kh)^2/72.
GaussRaw(h, w, kernel_h, kernel_w) ==
  LET D4 == (2 * h - kernel_h) * (2 * h - kernel_h)
            + (2 * w - kernel_w) * (2 * w - kernel_w)
      S2 == (kernel_w + kernel_h) * (kernel_w + kernel_h)
  IN  RoundDiv(ExpNeg(18 * D4, S2) * 72000, 3142 * S2)

\* gauss_kernel_ after caffe_scal(count, 1.0/gauss_sum, gaussian).  The code
\* indexes gaussian[h * kernel_w_ + w]; kernel_w_ is read as the kernel
\* width, the row length of the stencil.
GaussKernel(kernel_h, kernel_w) ==
  LET raw == [q \in 0 .. kernel_h * kernel_w - 1 |->
                GaussRaw(q \div kernel_w, q % kernel_w, kernel_h, kernel_w)]
      gauss_sum == SumTo(raw, kernel_h * kernel_w)
  IN  [q \in DOMAIN raw |-> RoundDiv(raw[q] * FixedOne, gauss_sum)]


(***************************************************************************)
(* LayerSetUp                                                              *)
(***************************************************************************)

\* An optional protobuf field is <<>> when absent and <<v>> when set;
\* has_x() and x() (the default of an absent uint32 is 0).
Has(f) == f # <<>>
Get(f) == IF f = <<>> THEN 0 ELSE f[1]

\* A repeated field read as conv_param.x((n == 1) ? 0 : i), i from 0.
Rep(f, i) == IF Len(f) = 1 THEN f[1] ELSE f[i + 1]

\* What weight_filler->Fill / bias_filler->Fill can leave in a blob of n
\* elements: the constant filler's default value 0, or, for a random
\* filler, one of a few tensors (all different values, a repeating
\* pattern).
Fills(filler, n) ==
  IF filler = "constant" THEN {Zeros(n)}
  ELSE {[i \in 0 .. n - 1 |-> i + 1], [i \in 0 .. n - 1 |-> (i * i) % 3]}

\* The members LayerSetUp assigns, as a record; pc = "aborted" once a CHECK
\* has failed, and every later step then leaves the record alone.
Members ==
  [pc |-> pc, kernel_shape_ |-> kernel_shape_, stride_ |-> stride_,
   pad_ |-> pad_, channels_ |-> channels_, num_output_ |-> num_output_,
   group_ |-> group_, bias_term_ |-> bias_term_, blobs_ |-> blobs_,
   intermediate_kernels_ |-> intermediate_kernels_,
   gauss_kernel_ |-> gauss_kernel_]

Abort(m) == [m EXCEPT !.pc = "aborted"]

\* Setup filter kernel dimensions (kernel_shape_), lines 38-64.
SetUpKernel(m, p) ==
  IF Has(p.kernel_h) \/ Has(p.kernel_w)
    THEN IF Len(p.kernel_size) # 0 THEN Abort(m)
         ELSE [m EXCEPT !.kernel_shape_ = <<Get(p.kernel_h), Get(p.kernel_w)>>]
    ELSE IF Len(p.kernel_size) \notin {1, 2} THEN Abort(m)
         ELSE [m EXCEPT !.kernel_shape_ =
                          <<Rep(p.kernel_size, 0), Rep(p.kernel_size, 1)>>]

\* CHECK_GT(kernel_shape_data[i], 0) for both axes, then CHECK_EQ of the two.
CheckKernel(m) ==
  IF m.pc = "aborted" THEN m
  ELSE IF \E i \in 1 .. 2 : ~(m.kernel_shape_[i] > 0) THEN Abort(m)
  ELSE IF m.kernel_shape_[1] # m.kernel_shape_[2] THEN Abort(m)
  ELSE m

\* Setup stride dimensions (stride_), lines 66-89: stride_h/stride_w are
\* stored unchecked; only the repeated field's values meet CHECK_GT.
SetUpStride(m, p) ==
  IF m.pc = "aborted" THEN m
  ELSE IF Has(p.stride_h) \/ Has(p.stride_w)
    THEN IF Len(p.stride) # 0 THEN Abort(m)
         ELSE [m EXCEPT !.stride_ = <<Get(p.stride_h), Get(p.stride_w)>>]
    ELSE IF Len(p.stride) \notin {0, 1, 2} THEN Abort(m)
         ELSE LET sd == [i \in 1 .. 2 |->
                           IF Len(p.stride) = 0 THEN 1 ELSE Rep(p.stride, i - 1)]
              IN  IF \E i \in 1 .. 2 : ~(sd[i] > 0)
                    THEN Abort([m EXCEPT !.stride_ = sd])
                    ELSE [m EXCEPT !.stride_ = sd]

\* Setup pad dimensions (pad_), lines 90-112.
SetUpPad(m, p) ==
  IF m.pc = "aborted" THEN m
  ELSE IF Has(p.pad_h) \/ Has(p.pad_w)
    THEN IF Len(p.pad) # 0 THEN Abort(m)
         ELSE [m EXCEPT !.pad_ = <<Get(p.pad_h), Get(p.pad_w)>>]
    ELSE IF Len(p.pad) \notin {0, 1, 2} THEN Abort(m)
         ELSE [m EXCEPT !.pad_ = [i \in 1 .. 2 |->
                 IF Len(p.pad) = 0 THEN 0 ELSE Rep(p.pad, i - 1)]]

\* Configure output channels and groups, lines 121-137.  group is taken
\* positive: channels_ % 0 is not modelled.
SetUpChannels(m, p, bottom0_shape) ==
  IF m.pc = "aborted" THEN m
  ELSE LET m1 == [m EXCEPT !.channels_ = bottom0_shape[2],
                           !.num_output_ = p.num_output]
       IN  IF ~(p.num_output > 0) THEN Abort(m1)
           ELSE LET m2 == [m1 EXCEPT !.group_ = p.group]
                IN  IF m2.channels_ % p.group # 0 THEN Abort(m2)
                    ELSE IF p.num_output % p.group # 0 THEN Abort(m2)
                    ELSE m2

\* weight_shape and bias_shape, lines 142-149.
WeightShape(m) ==
  <<m.num_output_, m.channels_ \div m.group_,
    m.kernel_shape_[1], m.kernel_shape_[2]>>
BiasShape(m) == IF m.bias_term_ THEN <<m.num_output_>> ELSE <<>>

NewBlob(shape, data) == [shape |-> shape, data |-> data, diff |-> Zeros(Count(shape))]

\* Handle the parameters: weights and biases, lines 150-193, with the
\* blobs the fillers produced.  Only the fresh path pushes the four
\* intermediate kernels (copies of the weight blob).
SetUpBlobs(m, p, wfill, bfill) ==
  IF m.pc = "aborted" THEN m
  ELSE LET m1 == [m EXCEPT !.bias_term_ = p.bias_term]
       IN  IF Len(m1.blobs_) > 0
             THEN IF Len(m1.blobs_) # 1 + (IF m1.bias_term_ THEN 1 ELSE 0)
                    THEN Abort(m1)
                  ELSE IF WeightShape(m1) # m1.blobs_[1].shape THEN Abort(m1)
                  ELSE IF m1.bias_term_ /\ BiasShape(m1) # m1.blobs_[2].shape
                    THEN Abort(m1)
                  ELSE m1
             ELSE LET wb == NewBlob(WeightShape(m1), wfill)
                  IN  [m1 EXCEPT
                         !.blobs_ = IF m1.bias_term_
                                      THEN <<wb, NewBlob(BiasShape(m1), bfill)>>
                                      ELSE <<wb>>,
                         !.intermediate_kernels_ =
                            m1.intermediate_kernels_
                              \o [i \in 1 .. num_rotations_ |-> wfill]]

\* Create the gaussian kernel, lines 200-216.
SetUpGauss(m) ==
  IF m.pc = "aborted" THEN m
  ELSE [m EXCEPT !.gauss_kernel_ =
                   GaussKernel(m.kernel_shape_[1], m.kernel_shape_[2]),
                 !.pc = "setup"]

\* LayerSetUp up to the parameter blobs: geometry, channels and groups.
SetUpGeometry(p, bottom0_shape) ==
  SetUpChannels(
    SetUpPad(SetUpStride(CheckKernel(SetUpKernel(Members, p)), p), p),
    p, bottom0_shape)

\* The filler outputs LayerSetUp can draw: none when it has aborted or the
\* blobs are already there ("Skipping parameter initialization").
FillChoices(m, p, shape) ==
  IF m.pc = "aborted" \/ Len(m.blobs_) > 0 THEN {<<>>}
  ELSE Fills(p.filler, Count(shape))

\* LayerSetUp(bottom, top), on a new layer or again on one set up.
LayerSetUp ==
  /\ pc \in {"new", "setup"}
  /\ LET m0 == SetUpGeometry(param, bottom[1].shape)
         b0 == [m0 EXCEPT !.bias_term_ = param.bias_term]
     IN  \E wfill \in FillChoices(m0, param, WeightShape(b0)) :
         \E bfill \in FillChoices(m0, param, BiasShape(b0)) :
           LET m == SetUpGauss(SetUpBlobs(m0, param, wfill, bfill))
           IN  /\ pc' = m.pc
               /\ kernel_shape_' = m.kernel_shape_
               /\ stride_' = m.stride_
               /\ pad_' = m.pad_
               /\ channels_' = m.channels_
               /\ num_output_' = m.num_output_
               /\ group_' = m.group_
               /\ bias_term_' = m.bias_term_
               /\ blobs_' = m.blobs_
               /\ intermediate_kernels_' = m.intermediate_kernels_
               /\ gauss_kernel_' = m.gauss_kernel_
  /\ UNCHANGED <<param, num_, output_shape_, bottom, top, orientation_map_,
                 intermediate_kernel_alphas_, kernels_read, iter, pureVars>>

(***************************************************************************)
(* Reshape                                                                 *)
(***************************************************************************)

\* compute_output_shape, one axis: (input_dim + 2*pad - kernel) / stride + 1
\* in int arithmetic.
OutputDim(input_dim, pad, kernel, stride) ==
  TruncDiv(input_dim + 2 * pad - kernel, stride) + 1

\* Reshape's CHECKs on the bottoms with the gradient-channel check left out.
BottomChecksNoChannels(b0, b1, chans) ==
  /\ b0[2] = chans
  /\ b0[3] = b1[3]
  /\ b0[4] = b1[4]
  /\ b0[1] = b1[1]

\* Reshape's CHECKs on the bottoms, lines 233-242 (both bottoms have four
\* axes, so the CHECK on num_axes passes).
BottomChecks(b0, b1, chans) ==
  /\ b0[2] = chans      \* Input size incompatible with convolution kernel.
  /\ b0[3] = b1[3]      \* both bottoms ought to have the same height.
  /\ b0[4] = b1[4]      \* both bottoms ought to have the same width.
  /\ b0[1] = b1[1]      \* both bottoms ought to have the same num.
  /\ b1[2] = 2          \* gradient map would have 2 channels, Gx and Gy.

\* The net has given the bottoms their shapes before it calls Reshape.
Feed(b0, b1) ==
  <<NewBlob(b0, Zeros(Count(b0))), NewBlob(b1, Zeros(Count(b1)))>>

\* Reshape(bottom, top) with bottoms of shapes b0 and b1.
Reshape(b0, b1) ==
  /\ pc \in {"setup", "reshaped", "forwarded", "backwarded", "updated"}
  /\ bottom' = Feed(b0, b1)
  /\ num_' = b0[1]
  /\ UNCHANGED <<param, kernel_shape_, stride_, pad_, channels_, num_output_,
                 group_, bias_term_, blobs_, gauss_kernel_, kernels_read,
                 iter, pureVars>>
  /\ IF ~BottomChecks(b0, b1, channels_)
       THEN \* a CHECK fails: nothing after line 232 has run
            /\ pc' = "reshape_aborted"
            /\ UNCHANGED <<output_shape_, top, orientation_map_,
                           intermediate_kernel_alphas_, intermediate_kernels_>>
     ELSE IF \E i \in 1 .. 2 : stride_[i] = 0
       THEN \* compute_output_shape divides by zero after output_shape_.clear()
            /\ pc' = "crashed"
            /\ output_shape_' = <<>>
            /\ UNCHANGED <<top, orientation_map_, intermediate_kernel_alphas_,
                           intermediate_kernels_>>
     ELSE LET out == [i \in 1 .. 2 |->
                        OutputDim(b0[i + 2], pad_[i], kernel_shape_[i], stride_[i])]
              top_shape == <<b0[1], num_output_, out[1], out[2]>>
              side_shape == <<b0[1], 2, out[1], out[2]>>
          IN  /\ output_shape_' = out
              /\ IF \E i \in 1 .. 2 : out[i] < 0
                   THEN \* top[0]->Reshape: Blob::Reshape CHECKs each dimension >= 0
                        /\ pc' = "top_aborted"
                        /\ UNCHANGED <<top, orientation_map_,
                                       intermediate_kernel_alphas_,
                                       intermediate_kernels_>>
                 ELSE /\ top' = <<BlobReshape(top[1], top_shape),
                                  BlobReshape(top[2], side_shape),
                                  BlobReshape(top[3], side_shape)>>
                      /\ orientation_map_' =
                           BlobReshape(orientation_map_, <<b0[1], 1, out[1], out[2]>>)
                      /\ intermediate_kernel_alphas_' =
                           BlobReshape(intermediate_kernel_alphas_,
                                       <<b0[1], 4, out[1], out[2]>>)
                      /\ IF Len(intermediate_kernels_) < num_rotations_
                           THEN \* intermediate_kernels_[i] of a vector that is too short
                                /\ pc' = "crashed"
                                /\ UNCHANGED intermediate_kernels_
                           ELSE /\ pc' = "reshaped"
                                /\ \E junk \in [JunkOffsets(kernel_shape_[2]) -> JunkVals] :
                                     intermediate_kernels_' =
                                       RotatedKernels(blobs_[1].data,
                                                      blobs_[1].shape, junk)

(***************************************************************************)
(* Forward_cpu                                                             *)
(***************************************************************************)

RECURSIVE Sigma(_, _)
\* The sum of the sequence seq.
Sigma(seq, i) == IF i > Len(seq) THEN 0 ELSE seq[i] + Sigma(seq, i + 1)

\* The pairs <<h, w>> of a loop nest  for h in h0..h1-1, for w in w0..w1-1.
Window(h0, h1, w0, w1) ==
  [k \in 1 .. Max(h1 - h0, 0) * Max(w1 - w0, 0) |->
     <<h0 + ((k - 1) \div (w1 - w0)), w0 + ((k - 1) % (w1 - w0))>>]

\* in_data[idx], in_data having been advanced plane by plane: a read past
\* the end of the blob yields whatever is there.
InRead(in_data, idx, junk) ==
  IF idx \in DOMAIN in_data THEN in_data[idx] ELSE junk

\* GaussConvolveHelper(in, out): the data of `out` afterwards.  The loop
\* nest runs n < N (in.shape(0)) and c < channels_, advancing in_data by
\* H*W and out_data by PH*PW per iteration, so iteration k = n*channels_+c
\* reads plane k of `in` and accumulates into plane k of `out`; planes of
\* `out` no iteration reaches stay at the 0 of caffe_set, which clears
\* out.count() elements; an iteration that reaches past out.count() but
\* stays in the memory of `out` accumulates onto what is there.  The
\* stencil index is taken from the clipped hstart/wstart.
GaussConvolveHelper(in, out, chans, gaussian, kshape, stride, pad, junk) ==
  LET N == in.shape[1]
      H == in.shape[3]
      W == in.shape[4]
      PH == out.shape[3]
      PW == out.shape[4]
      kernel_h == kshape[1]
      kernel_w == kshape[2]
      At(k, ph, pw) ==
        LET hs == ph * stride[1] - pad[1]
            ws == pw * stride[2] - pad[2]
            hend == Min(hs + kernel_h, H)
            wend == Min(ws + kernel_w, W)
            hstart == Max(hs, 0)
            wstart == Max(ws, 0)
            win == Window(hstart, hend, wstart, wend)
        IN  Sigma([j \in 1 .. Len(win) |->
                     gaussian[(win[j][1] - hstart) * kernel_w
                              + (win[j][2] - wstart)]
                     * InRead(in.data, k * H * W + win[j][1] * W + win[j][2],
                              junk)], 1)
  IN  [o \in DOMAIN out.data |->
         (IF o >= Count(out.shape) THEN out.data[o] ELSE 0)
         + (IF o \div (PH * PW) < N * chans
              THEN At(o \div (PH * PW), (o % (PH * PW)) \div PW, o % PW)
              ELSE 0)]

\* The iterations of GaussConvolveHelper read in_data beyond the memory of
\* `in` / write out_data beyond the memory of `out`.
SmootherReadsPast(in, chans) ==
  in.shape[1] * chans * in.shape[3] * in.shape[4] > Size(in.data)
SmootherWritesPast(in, out, chans) ==
  in.shape[1] * chans * out.shape[3] * out.shape[4] > Size(out.data)

\* atan(p/q) in whole degrees for 0 <= p <= q, q > 0: the approximation
\* z*(45 + 15.642*(1 - z)) of atan(z), exact at z = 0 and z = 1.
AtanDeg(p, q) ==
  LET zt == (p * 1000) \div q
  IN  RoundDiv(zt * (45000 + (15642 * (1000 - zt)) \div 1000), 1000000)

\* caffe_atan2: atan2(y, x) in whole degrees, in [-180, 180]; atan2(0, 0)
\* is 0 and atan2(+0, x < 0) is +180.
Atan2Deg(y, x) ==
  LET ax == Abs(x)
      ay == Abs(y)
      a == IF ax = 0 /\ ay = 0 THEN 0
           ELSE IF ay <= ax THEN AtanDeg(ay, ax) ELSE 90 - AtanDeg(ax, ay)
  IN  IF x >= 0 THEN (IF y >= 0 THEN a ELSE -a)
      ELSE (IF y >= 0 THEN 180 - a ELSE a - 180)

\* sin of d degrees, 0 <= d <= 180, in units of 1/FixedOne (Bhaskara's
\* approximation, exact at 0, 30, 90, 150 and 180).
SinHalfTurn(d) == RoundDiv(FixedOne * 4 * d * (180 - d), 40500 - d * (180 - d))

\* caffe_sin / caffe_cos of an angle in degrees within [-270, 270].
SinDeg(d) ==
  IF d < -180 THEN SinHalfTurn(d + 360)
  ELSE IF d < 0 THEN -SinHalfTurn(-d)
  ELSE IF d <= 180 THEN SinHalfTurn(d)
  ELSE -SinHalfTurn(d - 180)
CosDeg(d) == SinDeg(d + 90)

\* M_PI in units of 1e-6: angles in radians are kept in microradians.
PiMicro == 3141593

\* The radians of a whole number of degrees, and Dtype angle =
\* 180. * orient[q] / M_PI rounded to whole degrees.
Radians(deg) == RoundDiv(deg * PiMicro, 180)
Degrees(rad) == RoundDiv(180 * rad, PiMicro)

\* The orientation map, in radians, from top[2]: per batch element,
\* caffe_atan2(spatial, top2_y, top2_x, orientation).  Elements of a larger
\* earlier allocation are left as they are.
Orientation(top2, old) ==
  LET sp == top2.shape[3] * top2.shape[4]
  IN  [o \in DOMAIN old |->
         IF o < top2.shape[1] * sp
           THEN Radians(Atan2Deg(top2.data[(o \div sp) * 2 * sp + sp + (o % sp)],
                                 top2.data[(o \div sp) * 2 * sp + (o % sp)]))
           ELSE old[o]]

\* top[1]: caffe_sin into channel 0 and caffe_cos into channel 1.
SinCos(orient, top1) ==
  LET sp == top1.shape[3] * top1.shape[4]
  IN  [o \in DOMAIN top1.data |->
         IF o < Count(top1.shape)
           THEN LET a == orient[(o \div (2 * sp)) * sp + (o % sp)]
                IN  IF (o \div sp) % 2 = 0 THEN SinDeg(Degrees(a))
                                            ELSE CosDeg(Degrees(a))
           ELSE top1.data[o]]

RECURSIVE AlphaFill(_, _, _, _)
\* The loop nest over n, h, w of "Fill up intermediate_kernel_alphas_":
\* locations k .. N*H*W-1 written into data, orient in radians.
AlphaFill(data, k, orient_blob, orient) ==
  LET N == orient_blob.shape[1]
      H == orient_blob.shape[3]
      W == orient_blob.shape[4]
  IN  IF k >= N * H * W THEN data
      ELSE AlphaFill(AlphaWrite(data, k \div (H * W), (k % (H * W)) \div W,
                                k % W, H, W, Degrees(orient[k])),
                     k + 1, orient_blob, orient)

\* forward_cpu_gemm on one batch element: the correlation of input (the
\* data of a <<C, H, W>> image starting at base) with the filters weight of
\* shape wshape = <<NO, C/group, KH, KW>>; the value at output channel o
\* and location (ph, pw).  Input outside the image is zero padding.
ConvAt(input, base, C, H, W, weight, wshape, grp, stride, pad, o, ph, pw) ==
  LET CG == wshape[2]
      KH == wshape[3]
      KW == wshape[4]
      g == o \div (wshape[1] \div grp)
      taps == [t \in 1 .. CG * KH * KW |->
                 LET c == (t - 1) \div (KH * KW)
                     kh == ((t - 1) % (KH * KW)) \div KW
                     kw == (t - 1) % KW
                     h == ph * stride[1] - pad[1] + kh
                     w == pw * stride[2] - pad[2] + kw
                 IN  IF h >= 0 /\ h < H /\ w >= 0 /\ w < W
                       THEN weight[((o * CG + c) * KH + kh) * KW + kw]
                            * input[base + ((g * CG + c) * H + h) * W + w]
                       ELSE 0]
  IN  Sigma(taps, 1)

\* "Do the convolutions and construct top[0]": for n < num_,
\* forward_cpu_gemm(bottom_data + n*bottom_dim_, weight, top_data +
\* n*top_dim_) with weight = blobs_[0], then forward_cpu_bias.  The data of
\* top[0] afterwards.
Convolve(b0, out) ==
  LET C == b0.shape[2]
      H == b0.shape[3]
      W == b0.shape[4]
      OH == out.shape[3]
      OW == out.shape[4]
      bottom_dim == C * H * W
      top_dim == out.shape[2] * OH * OW
  IN  [idx \in DOMAIN out.data |->
         IF idx >= num_ * top_dim THEN out.data[idx]
         ELSE LET o == (idx % top_dim) \div (OH * OW)
              IN  ConvAt(b0.data, (idx \div top_dim) * bottom_dim, C, H, W,
                         blobs_[1].data, blobs_[1].shape, group_, stride_, pad_,
                         o, (idx % (OH * OW)) \div OW, idx % OW)
                  + (IF bias_term_ THEN blobs_[2].data[o] ELSE 0)]

\* Number of forward passes explored.
MaxIter == 2

\* Forward_cpu(bottom, top), the net having put the data d0 and d1 into the
\* bottoms.  Caffe calls Reshape before each forward pass (hpp, comment on
\* intermediate_kernels_), hence pc = "reshaped".  The loop over the
\* rotated kernels (lines 509-527) reads intermediate_kernels_ and the
\* alphas into temporaries that nothing uses afterwards; kernels_read
\* records what it read, and whether the smoother left its blobs.  A
\* smoother that writes past the end of top[2] damages the heap: the run
\* dies of it or goes on.
Forward(d0, d1) ==
  /\ pc = "reshaped"
  /\ iter < MaxIter
  /\ \E junk \in JunkVals :
       LET b == <<[bottom[1] EXCEPT !.data = d0], [bottom[2] EXCEPT !.data = d1]>>
           top2 == [top[3] EXCEPT !.data =
                      GaussConvolveHelper(b[2], top[3], channels_, gauss_kernel_,
                                          kernel_shape_, stride_, pad_, junk)]
           orient == Orientation(top2, orientation_map_.data)
       IN  /\ bottom' = b
           /\ top' = <<[top[1] EXCEPT !.data = Convolve(b[1], top[1])],
                       [top[2] EXCEPT !.data = SinCos(orient, top[2])],
                       top2>>
           /\ orientation_map_' = [orientation_map_ EXCEPT !.data = orient]
           /\ intermediate_kernel_alphas_' =
                [intermediate_kernel_alphas_ EXCEPT !.data =
                   AlphaFill(intermediate_kernel_alphas_.data, 0,
                             orientation_map_, orient)]
  /\ kernels_read' = [weight |-> blobs_[1].data,
                      kernels |-> intermediate_kernels_,
                      reads_past |-> SmootherReadsPast(bottom[2], channels_),
                      writes_past |->
                        SmootherWritesPast(bottom[2], top[3], channels_)]
  /\ pc' \in IF SmootherWritesPast(bottom[2], top[3], channels_)
              THEN {"forwarded", "crashed"} ELSE {"forwarded"}
  /\ iter' = iter + 1
  /\ UNCHANGED <<param, kernel_shape_, stride_, pad_, channels_, num_output_,
                 group_, bias_term_, blobs_, intermediate_kernels_,
                 gauss_kernel_, num_, output_shape_, pureVars>>

(***************************************************************************)
(* Backward_cpu and the solver's update                                    *)
(***************************************************************************)

\* The geometry the convolution primitives were given by Reshape:
\* conv_input_shape_ (from bottom[0]), output_shape_, bottom_dim_, top_dim_.
ConvGeom ==
  [H |-> bottom[1].shape[3], W |-> bottom[1].shape[4],
   OH |-> output_shape_[1], OW |-> output_shape_[2],
   bottom_dim |-> bottom[1].shape[2] * bottom[1].shape[3] * bottom[1].shape[4],
   top_dim |-> num_output_ * output_shape_[1] * output_shape_[2],
   CG |-> blobs_[1].shape[2], KH |-> blobs_[1].shape[3], KW |-> blobs_[1].shape[4]]

\* The input rows (h, w) a filter tap (kh, kw) meets at output (ph, pw), or
\* <<>> when it falls into the padding.
TapAt(g, ph, pw, kh, kw) ==
  LET h == ph * stride_[1] - pad_[1] + kh
      w == pw * stride_[2] - pad_[2] + kw
  IN  IF h >= 0 /\ h < g.H /\ w >= 0 /\ w < g.W THEN <<h, w>> ELSE <<>>

\* backward_cpu_bias for n < num_: bias_diff[o] accumulates the sum of
\* top_diff over the locations of channel o.
BiasDiff(bdiff, top_diff, junk) ==
  LET g == ConvGeom
      sp == g.OH * g.OW
  IN  [o \in DOMAIN bdiff |->
         bdiff[o] + Sigma([k \in 1 .. num_ * sp |->
                             InRead(top_diff, ((k - 1) \div sp) * g.top_dim
                                              + o * sp + ((k - 1) % sp), junk)],
                          1)]

\* weight_cpu_gemm for n < num_: weight_diff accumulates the correlation
\* of bottom_data with top_diff ("we will accumulate diffs").
WeightDiff(wdiff, bottom_data, top_diff, junk) ==
  LET g == ConvGeom
      sp == g.OH * g.OW
  IN  [t \in DOMAIN wdiff |->
         LET o == t \div (g.CG * g.KH * g.KW)
             c == (t \div (g.KH * g.KW)) % g.CG
             grp == o \div (num_output_ \div group_)
         IN  wdiff[t]
             + Sigma([k \in 1 .. num_ * sp |->
                        LET n == (k - 1) \div sp
                            ph == ((k - 1) % sp) \div g.OW
                            pw == (k - 1) % g.OW
                            hw == TapAt(g, ph, pw, (t \div g.KW) % g.KH, t % g.KW)
                        IN  IF hw = <<>> THEN 0
                            ELSE InRead(top_diff,
                                        n * g.top_dim + (o * g.OH + ph) * g.OW + pw,
                                        junk)
                                 * InRead(bottom_data,
                                          n * g.bottom_dim
                                          + (((grp * g.CG + c) * g.H + hw[1]) * g.W)
                                          + hw[2], junk)],
                     1)]

\* backward_cpu_gemm for n < num_: bottom_diff is overwritten with the
\* transposed convolution of top_diff with weight = blobs_[0].
BottomDiff(old, top_diff, junk) ==
  LET g == ConvGeom
      sp == g.OH * g.OW
      opg == num_output_ \div group_
      weight == blobs_[1].data
  IN  [idx \in DOMAIN old |->
         IF idx >= num_ * g.bottom_dim THEN old[idx]
         ELSE LET n == idx \div g.bottom_dim
                  ch == (idx % g.bottom_dim) \div (g.H * g.W)
                  h == (idx % (g.H * g.W)) \div g.W
                  w == idx % g.W
                  grp == ch \div g.CG
                  c == ch % g.CG
              IN  Sigma([k \in 1 .. opg * sp * g.KH * g.KW |->
                           LET o == grp * opg + ((k - 1) \div (sp * g.KH * g.KW))
                               ph == ((k - 1) \div (g.OW * g.KH * g.KW)) % g.OH
                               pw == ((k - 1) \div (g.KH * g.KW)) % g.OW
                               kh == ((k - 1) \div g.KW) % g.KH
                               kw == (k - 1) % g.KW
                           IN  IF TapAt(g, ph, pw, kh, kw) = <<h, w>>
                                 THEN weight[((o * g.CG + c) * g.KH + kh) * g.KW + kw]
                                      * InRead(top_diff,
                                               n * g.top_dim
                                               + (o * g.OH + ph) * g.OW + pw, junk)
                                 ELSE 0],
                        1)]

\* The body of the loop "for i < top.size()" for one i whose bottom[i]
\* exists: bias gradient, weight gradient (param_propagate_down_ is all
\* true), and the gradient of bottom[i] when propagate_down[i].  st is the
\* record [blobs, bottom] the loop has produced so far.
BackwardPass(st, top_diff, i, prop, junk) ==
  LET b1 == IF bias_term_
              THEN [st.blobs EXCEPT ![2].diff = BiasDiff(@, top_diff, junk)]
              ELSE st.blobs
  IN  [blobs |-> [b1 EXCEPT ![1].diff =
                    WeightDiff(@, st.bottom[i].data, top_diff, junk)],
       bottom |-> IF prop
                    THEN [st.bottom EXCEPT ![i].diff = BottomDiff(@, top_diff, junk)]
                    ELSE st.bottom]

\* The same body for i = 2, where bottom[2] is an element past the end of
\* the two bottoms, in a run that survives it: bottom_data is whatever the
\* stray pointer leads to, and the write through bottom_diff (guarded by
\* the equally stray propagate_down[2]) lands outside the layer.
BackwardStray(st, top_diff, junk) ==
  LET b1 == IF bias_term_
              THEN [st.blobs EXCEPT ![2].diff = BiasDiff(@, top_diff, junk)]
              ELSE st.blobs
  IN  [b1 EXCEPT ![1].diff = WeightDiff(@, <<>>, top_diff, junk)]

\* Backward_cpu(top, propagate_down, bottom) with the diffs top_diff of the
\* three tops.  The loop runs i over top.size() = 3 and indexes bottom[i]:
\* at i = 2 it either dies or goes on with stray data.
Backward(top_diff, propagate_down) ==
  /\ pc = "forwarded"
  /\ \E junk \in JunkVals :
       LET st1 == BackwardPass([blobs |-> blobs_, bottom |-> bottom],
                               top_diff[1], 1, propagate_down[1], junk)
           st2 == BackwardPass(st1, top_diff[2], 2, propagate_down[2], junk)
       IN  /\ bottom' = st2.bottom
           /\ \/ /\ pc' = "crashed"
                 /\ blobs_' = st2.blobs
              \/ /\ pc' = "backwarded"
                 /\ blobs_' = BackwardStray(st2, top_diff[3], junk)
  /\ UNCHANGED <<param, kernel_shape_, stride_, pad_, channels_, num_output_,
                 group_, bias_term_, intermediate_kernels_, gauss_kernel_,
                 num_, output_shape_, top, orientation_map_,
                 intermediate_kernel_alphas_, kernels_read, iter, pureVars>>

\* The solver's step after Backward: Blob::Update (data -= diff) on every
\* parameter blob, the diffs cleared for the next iteration.
WeightUpdate ==
  /\ pc = "backwarded"
  /\ blobs_' = [k \in DOMAIN blobs_ |->
                  [blobs_[k] EXCEPT
                     !.data = [t \in DOMAIN blobs_[k].data |->
                                 blobs_[k].data[t] - blobs_[k].diff[t]],
                     !.diff = Zeros(Count(blobs_[k].shape))]]
  /\ pc' = "updated"
  /\ UNCHANGED <<param, kernel_shape_, stride_, pad_, channels_, num_output_,
                 group_, bias_term_, intermediate_kernels_, gauss_kernel_,
                 num_, output_shape_, bottom, top, orientation_map_,
                 intermediate_kernel_alphas_, kernels_read, iter, pureVars>>

(***************************************************************************)
(* Construction                                                            *)
(***************************************************************************)

\* The layer as constructed, before LayerSetUp, for a configuration drawn
\* from Params and bottom blobs of shapes drawn from Shapes.
InitLayer(Params, Shapes) ==
  /\ pc = "new"
  /\ param \in Params
  /\ \E sh \in Shapes :
       bottom = <<NewBlob(sh[1], Zeros(Count(sh[1]))),
                  NewBlob(sh[2], Zeros(Count(sh[2])))>>
  /\ kernel_shape_ = <<>> /\ stride_ = <<>> /\ pad_ = <<>>
  /\ channels_ = 0 /\ num_output_ = 0 /\ group_ = 0 /\ bias_term_ = FALSE
  /\ blobs_ = param.preloaded
  /\ intermediate_kernels_ = <<>>
  /\ gauss_kernel_ = <<>>
  /\ num_ = 0 /\ output_shape_ = <<>>
  /\ top = <<EmptyBlob, EmptyBlob, EmptyBlob>>
  /\ orientation_map_ = EmptyBlob
  /\ intermediate_kernel_alphas_ = EmptyBlob
  /\ kernels_read = <<>>
  /\ iter = 0

PureIdle == rot = <<>> /\ alph = <<>>

\* kernel_size / stride / pad as the uniform repeated field or as the
\* per-axis pair, with values drawn from Vals.
Uniform(Vals) == {<<>>} \cup {<<v>> : v \in Vals}
                 \cup {<<v1, v2>> : v1 \in Vals, v2 \in Vals}
Optional(Vals) == {<<>>} \cup {<<v>> : v \in Vals}

\* Largest kernel size, stride and pad of the configurations explored.
MaxKernel == 3
MaxStride == 2
MaxPad == 1

ConvParam(ks, kh, kw, st, sh, sw, pd, nout, grp, bias, fill, pre) ==
  [kernel_size |-> ks, kernel_h |-> kh, kernel_w |-> kw,
   stride |-> st, stride_h |-> sh, stride_w |-> sw,
   pad |-> pd, pad_h |-> <<>>, pad_w |-> <<>>,
   num_output |-> nout, group |-> grp, bias_term |-> bias,
   filler |-> fill, preloaded |-> pre]

\* Configurations for the setup checks: every way of giving the kernel and
\* the stride, uniform or per axis, zero included.
SetupParams ==
  {ConvParam(k[1], k[2], k[3], s[1], s[2], s[3], pd, 1, 1, bias, "constant", <<>>) :
     k \in {<<ks, <<>>, <<>>>> : ks \in Uniform(0 .. MaxKernel)}
           \cup {<<<<>>, kh, kw>> : kh \in Optional(0 .. MaxKernel),
                                    kw \in Optional(0 .. MaxKernel)},
     s \in {<<st, <<>>, <<>>>> : st \in Uniform(0 .. MaxStride)}
           \cup {<<<<>>, sh, sw>> : sh \in Optional(0 .. MaxStride),
                                    sw \in Optional(0 .. MaxStride)},
     pd \in {<<>>, <<MaxPad>>},
     bias \in BOOLEAN}

SetupShapes == {<<<<1, 2, 2, 2>>, <<1, 2, 2, 2>>>>}

InitSetup == InitLayer(SetupParams, SetupShapes) /\ PureIdle
NextSetup == LayerSetUp
SpecSetup == InitSetup /\ [][NextSetup]_vars

(***************************************************************************)
(* Claims about LayerSetUp (checked under SpecSetup)                       *)
(***************************************************************************)

\* C9: LayerSetUp never completes with a kernel or stride dimension <= 0 or
\* with kernel height different from kernel width, whether the values come
\* from the uniform field or from the per-axis fields.
C9_SetupRejectsBadGeometry ==
  pc = "setup" =>
    /\ \A i \in 1 .. 2 : kernel_shape_[i] > 0 /\ stride_[i] > 0
    /\ kernel_shape_[1] = kernel_shape_[2]

\* The part of C9 about the kernel alone, which the code does enforce.
SetupRejectsBadKernel ==
  pc = "setup" =>
    /\ \A i \in 1 .. 2 : kernel_shape_[i] > 0
    /\ kernel_shape_[1] = kernel_shape_[2]

\* Four times the squared offset of (h, w) from the centre position
\* ((kernel_h-1)/2, (kernel_w-1)/2).
CentreOff4(q, kernel_h, kernel_w) ==
  LET h == q \div kernel_w
      w == q % kernel_w
  IN  (2 * h - (kernel_h - 1)) * (2 * h - (kernel_h - 1))
      + (2 * w - (kernel_w - 1)) * (2 * w - (kernel_w - 1))

\* The stencil sums to 1 up to the rounding of its entries.
GaussSumsToOne ==
  pc = "setup" =>
    Abs(SumTo(gauss_kernel_, Size(gauss_kernel_)) - FixedOne)
      <= Size(gauss_kernel_)

\* C10: the stencil is centred on the kernel's centre: an entry depends only
\* on its squared offset from ((kernel_h-1)/2, (kernel_w-1)/2) and does not
\* grow with it, mirrored entries are equal, for odd sizes the unique
\* maximum is the centre cell, and the entries sum to 1.
C10_GaussCentred ==
  pc = "setup" =>
    LET kernel_h == kernel_shape_[1]
        kernel_w == kernel_shape_[2]
        g == gauss_kernel_
        off(q) == CentreOff4(q, kernel_h, kernel_w)
    IN  /\ \A q1, q2 \in DOMAIN g :
             /\ off(q1) = off(q2) => g[q1] = g[q2]
             /\ off(q1) < off(q2) => g[q1] >= g[q2]
        /\ \A h \in 0 .. kernel_h - 1, w \in 0 .. kernel_w - 1 :
             g[h * kernel_w + w]
               = g[(kernel_h - 1 - h) * kernel_w + (kernel_w - 1 - w)]
        /\ (kernel_h % 2 = 1 /\ kernel_w % 2 = 1) =>
             \A q \in DOMAIN g :
               off(q) # 0 => g[q] < g[((kernel_h - 1) \div 2) * kernel_w
                                       + (kernel_w - 1) \div 2]
        /\ GaussSumsToOne

(***************************************************************************)
(* Shapes: LayerSetUp, then Reshape with bottoms of many shapes            *)
(***************************************************************************)

\* Largest bottom height/width explored.
MaxIn == 3

\* Well-formed configurations (square kernel, positive stride from either
\* source), plus the per-axis stride left at 0.
ShapeParams ==
  {ConvParam(<<k>>, <<>>, <<>>, s[1], s[2], s[3], pd, 1, 1, FALSE, "constant", <<>>) :
     k \in 1 .. MaxKernel,
     s \in {<<<<st>>, <<>>, <<>>>> : st \in 1 .. MaxStride}
           \cup {<<<<>>, <<0>>, <<0>>>>, <<<<>>, <<1>>, <<MaxStride>>>>},
     pd \in {<<>>, <<MaxPad>>}}

\* Primary inputs of two channels (what the layer was set up with).
ShapeBottom0 == {<<1, 2, h, w>> : h \in 1 .. MaxIn, w \in 1 .. MaxIn}

\* The bottoms Reshape is called with: a primary input with its matching
\* gradient field, and the pairs that are wrong in one respect.
ShapePairs(b0) ==
  {<<b0, <<b0[1], 2, b0[3], b0[4]>>>>,
   <<b0, <<b0[1], 1, b0[3], b0[4]>>>>,
   <<b0, <<b0[1], 3, b0[3], b0[4]>>>>,
   <<b0, <<b0[1] + 1, 2, b0[3], b0[4]>>>>,
   <<b0, <<b0[1], 2, b0[3] + 1, b0[4]>>>>,
   <<b0, <<b0[1], 2, b0[3], b0[4] + 1>>>>,
   <<<<b0[1], 3, b0[3], b0[4]>>, <<b0[1], 2, b0[3], b0[4]>>>>,
   <<<<b0[1] + 1, 2, b0[3], b0[4]>>, <<b0[1] + 1, 3, b0[3], b0[4]>>>>}

ReshapeAnyShape ==
  \E b0 \in ShapeBottom0 : \E b \in ShapePairs(b0) : Reshape(b[1], b[2])

InitShape == InitLayer(ShapeParams, {<<<<1, 2, 1, 1>>, <<1, 2, 1, 1>>>>}) /\ PureIdle
NextShape == LayerSetUp \/ ReshapeAnyShape
SpecShape == InitShape /\ [][NextShape]_vars

(***************************************************************************)
(* Claims about Reshape (checked under SpecShape)                          *)
(***************************************************************************)

\* C7: each output spatial size is floor((input + 2*pad - kernel)/stride) + 1
\* for every input size, pad >= 0, kernel > 0 and stride > 0, also when
\* input + 2*pad - kernel is negative.
C7_OutputShapeIsFloor ==
  (pc \in {"reshaped", "top_aborted"} /\ \A i \in 1 .. 2 : stride_[i] > 0) =>
    \A i \in 1 .. 2 :
      output_shape_[i] =
        FloorDiv(bottom[1].shape[i + 2] + 2 * pad_[i] - kernel_shape_[i],
                 stride_[i]) + 1

\* The formula of C7 where the kernel fits into the padded input, which is
\* where the int division of the code and floor agree.
OutputShapeIsFloorWhenKernelFits ==
  (pc \in {"reshaped", "top_aborted"} /\ \A i \in 1 .. 2 : stride_[i] > 0) =>
    \A i \in 1 .. 2 :
      bottom[1].shape[i + 2] + 2 * pad_[i] - kernel_shape_[i] >= 0 =>
        output_shape_[i] =
          FloorDiv(bottom[1].shape[i + 2] + 2 * pad_[i] - kernel_shape_[i],
                   stride_[i]) + 1

\* The gradient field does not have 2 channels, or the bottoms differ in
\* batch size, height or width.
GradMismatch(b) ==
  \/ b[2].shape[2] # 2
  \/ b[1].shape[1] # b[2].shape[1]
  \/ b[1].shape[3] # b[2].shape[3]
  \/ b[1].shape[4] # b[2].shape[4]

\* What Reshape and Forward size or fill, and what LayerSetUp established.
reshapedVars == <<output_shape_, top, orientation_map_,
                  intermediate_kernel_alphas_, intermediate_kernels_>>
setupVars == <<kernel_shape_, stride_, pad_, channels_, num_output_, group_,
               bias_term_, blobs_, gauss_kernel_>>

\* C8 as stated: a Reshape whose bottoms mismatch aborts, and no layer
\* state at all has been resized or written when it does.
C8_AbortBeforeAnyWrite ==
  [][(pc # "new" /\ GradMismatch(bottom')) =>
       (pc' = "reshape_aborted" /\ UNCHANGED <<num_, reshapedVars, setupVars>>)]_vars

\* C8 as amended: a Reshape whose bottoms mismatch aborts, having resized
\* or written no top tensor, orientation map, alpha field, rotated kernel,
\* output shape or setup state; the one member written before the failing
\* CHECK is the batch count num_, set from bottom[0].
C8_AbortWritesOnlyNum ==
  [][(pc # "new" /\ GradMismatch(bottom')) =>
       (/\ pc' = "reshape_aborted"
        /\ UNCHANGED <<reshapedVars, setupVars>>
        /\ num_' = bottom'[1].shape[1])]_vars

\* A Reshape that followed a successful one has aborted on a gradient field
\* of 3 channels: the tops are still those of the earlier Reshape (batch
\* size 1) and num_ is the batch size 2 of the new bottom.
C8_Witness ==
  /\ pc = "reshape_aborted"
  /\ bottom[2].shape[2] = 3
  /\ top[1].shape # <<>>
  /\ num_ = 2
  /\ top[1].shape[1] = 1

(***************************************************************************)
(* The life of a layer: LayerSetUp, then Reshape, Forward_cpu,             *)
(* Backward_cpu and the weight update, over and over                       *)
(***************************************************************************)

\* Largest kernel size of the layers run through their life.
MaxLifeKernel == 2

\* Parameter blobs already present when LayerSetUp runs (a reloaded net).
Reloaded(k, bias) ==
  LET wb == NewBlob(<<1, 2, k, k>>, [i \in 0 .. 2 * k * k - 1 |-> i + 1])
  IN  IF bias THEN <<wb, NewBlob(<<1>>, [i \in 0 .. 0 |-> 1])>> ELSE <<wb>>

\* One output channel over two input channels, stride 1, no padding,
\* randomly filled or reloaded parameters.
LifeParams ==
  {ConvParam(<<k>>, <<>>, <<>>, <<1>>, <<>>, <<>>, <<>>, 1, 1, bias, "random", pre) :
     k \in 1 .. MaxLifeKernel, bias \in BOOLEAN, pre \in {<<>>}}
  \cup {ConvParam(<<k>>, <<>>, <<>>, <<1>>, <<>>, <<>>, <<>>, 1, 1, bias, "random",
                  Reloaded(k, bias)) :
          k \in 1 .. MaxLifeKernel, bias \in BOOLEAN}

\* The shapes of the bottoms (both bottoms alike): one image, and a batch
\* of two.
LifeBottoms ==
  {<<1, 2, MaxLifeKernel, MaxLifeKernel + 1>>,
   <<2, 2, MaxLifeKernel, MaxLifeKernel>>}

\* Gradient directions <<Gx, Gy>> given to alternate locations.
GradPairs ==
  {<<<<1, 1>>, <<1, 1>>>>,
   <<<<-1, 1>>, <<1, 0>>>>,
   <<<<0, -1>>, <<-1, -1>>>>,
   <<<<2, 1>>, <<-1, 0>>>>}

\* A gradient field of the given shape: channel 0 is Gx, channel 1 is Gy.
GradField(shape, dA, dB) ==
  LET sp == shape[3] * shape[4]
  IN  [idx \in 0 .. Count(shape) - 1 |->
         LET d == IF ((idx \div (2 * sp)) + (idx % sp)) % 2 = 0 THEN dA ELSE dB
         IN  d[((idx \div sp) % 2) + 1]]

\* A primary input of the given shape.
Image(shape) == [idx \in 0 .. Count(shape) - 1 |-> (idx % 3) + 1]

\* The diffs the layers above hand back for a blob.
Ones(blob) == [idx \in DOMAIN blob.data |-> 1]

\* The net reshapes at the start of a forward pass: after setup, after a
\* forward pass (testing) and after the solver's update (training).
ReshapeLife ==
  /\ pc \in {"setup", "forwarded", "updated"}
  /\ iter < MaxIter
  /\ \E sh \in LifeBottoms : Reshape(sh, sh)

ForwardLife ==
  \E p \in GradPairs :
    Forward(Image(bottom[1].shape), GradField(bottom[2].shape, p[1], p[2]))

\* The diffs of the three tops when Backward is called.
TopDiffs == <<Ones(top[1]), Ones(top[2]), Ones(top[3])>>

\* The gradient of the primary input is requested or not; so is that of
\* the gradient field.
BackwardLife ==
  /\ iter < MaxIter
  /\ \E prop \in {<<TRUE, FALSE>>, <<FALSE, FALSE>>, <<TRUE, TRUE>>} :
       Backward(TopDiffs, prop)

Init == InitLayer(LifeParams, {<<<<1, 2, 2, 2>>, <<1, 2, 2, 2>>>>}) /\ PureIdle
Next == LayerSetUp \/ ReshapeLife \/ ForwardLife \/ BackwardLife \/ WeightUpdate
Spec == Init /\ [][Next]_vars

(***************************************************************************)
(* Claims about the alpha field and the output (checked under Spec)        *)
(***************************************************************************)

\* The alpha of rotation i at location (h, w) of batch element n.
AlphaAt(n, i, h, w) ==
  LET H == intermediate_kernel_alphas_.shape[3]
      W == intermediate_kernel_alphas_.shape[4]
  IN  intermediate_kernel_alphas_.data[n * 4 * H * W + (i * H + h) * W + w]

\* The batch elements and locations of the tops.
Locations ==
  {<<n, h, w>> : n \in 0 .. top[1].shape[1] - 1,
                 h \in 0 .. top[1].shape[3] - 1,
                 w \in 0 .. top[1].shape[4] - 1}

\* At one location the four alphas sum to 1, and either exactly two are
\* non-zero or one is exactly 1 and the other three are 0.
AlphaWellFormed(l) ==
  LET a == [i \in 0 .. 3 |-> AlphaAt(l[1], i, l[2], l[3])]
  IN  /\ a[0] + a[1] + a[2] + a[3] = AlphaOne
      /\ \/ Cardinality({i \in 0 .. 3 : a[i] # 0}) = 2
         \/ \E i \in 0 .. 3 : a[i] = AlphaOne /\ \A j \in 0 .. 3 \ {i} : a[j] = 0

\* C1: after every Forward, whatever Forward calls came before it, the
\* alpha field is well formed at every batch element and output location.
C1_AlphaFieldWellFormed ==
  pc = "forwarded" => \A l \in Locations : AlphaWellFormed(l)

\* After the first Forward of a layer, whose alpha blob is newly allocated
\* (all zero), the alpha field is well formed.
AlphaFieldWellFormedFirstPass ==
  (pc = "forwarded" /\ iter = 1) => \A l \in Locations : AlphaWellFormed(l)

\* The response of the filters kern at output channel o and location
\* (ph, pw) for batch element n of bottom[0].
Response(kern, n, o, ph, pw) ==
  ConvAt(bottom[1].data,
         n * bottom[1].shape[2] * bottom[1].shape[3] * bottom[1].shape[4],
         bottom[1].shape[2], bottom[1].shape[3], bottom[1].shape[4],
         kern, blobs_[1].shape, group_, stride_, pad_, o, ph, pw)

\* top[0] at output channel o of location l.
Top0At(l, o) ==
  top[1].data[((l[1] * top[1].shape[2] + o) * top[1].shape[3] + l[2])
              * top[1].shape[4] + l[3]]

\* C2: the primary output is, at every batch element, output channel and
\* location, the alpha-weighted sum of the responses of the four rotated
\* kernels plus the bias (both sides in units of 1/AlphaOne).
C2_OutputIsAlphaBlend ==
  pc = "forwarded" =>
    \A l \in Locations : \A o \in 0 .. num_output_ - 1 :
      AlphaOne * Top0At(l, o)
        = Sigma([i \in 1 .. num_rotations_ |->
                   AlphaAt(l[1], i - 1, l[2], l[3])
                   * Response(intermediate_kernels_[i], l[1], o, l[2], l[3])], 1)
          + AlphaOne * (IF bias_term_ THEN blobs_[2].data[o] ELSE 0)

(***************************************************************************)
(* Claims about the rotated kernels (checked under Spec)                   *)
(***************************************************************************)

\* The quarter turns of a filter bank, each KH x KW plane turned on its
\* own: rotation i (counter clockwise) of kern at index idx.
TurnedIndex(i, h, w, K) ==
  CASE i = 0 -> h * K + w
    [] i = 1 -> w * K + (K - 1 - h)
    [] i = 2 -> (K - 1 - h) * K + (K - 1 - w)
    [] i = 3 -> (K - 1 - w) * K + h

Turned(i, kern, K) ==
  [idx \in DOMAIN kern |->
     kern[(idx \div (K * K)) * K * K
          + TurnedIndex(i, (idx % (K * K)) \div K, idx % K, K)]]

\* C3: the rotated kernels a Forward reads are the four rotations of the
\* weights as they are at the start of that Forward.
C3_ForwardReadsRotationsOfWeights ==
  pc = "forwarded" =>
    /\ Len(kernels_read.kernels) = num_rotations_
    /\ \A i \in 1 .. num_rotations_ :
         kernels_read.kernels[i] = Turned(i - 1, blobs_[1].data, kernel_shape_[1])

\* What does hold of the kernels a Forward reads: they are what Reshape's
\* rotation loop makes of the weights as they are at that Forward, never
\* of weights since changed.
ForwardReadsKernelsOfCurrentWeights ==
  pc = "forwarded" =>
    /\ kernels_read.weight = blobs_[1].data
    /\ \E junk \in [JunkOffsets(kernel_shape_[2]) -> JunkVals] :
         kernels_read.kernels
           = RotatedKernels(blobs_[1].data, blobs_[1].shape, junk)

\* C4: after Reshape the 0-degree kernel equals the weights at every index,
\* each (output channel, input channel) plane taken from its own plane.
C4_ZeroRotationIsWeights ==
  pc = "reshaped" => intermediate_kernels_[1] = blobs_[1].data

\* What does hold: every plane of the 0-degree kernel is a copy of the
\* first plane of the weights.
ZeroRotationIsFirstPlane ==
  pc = "reshaped" =>
    \A idx \in DOMAIN blobs_[1].data :
      intermediate_kernels_[1][idx]
        = blobs_[1].data[idx % (kernel_shape_[1] * kernel_shape_[2])]

(***************************************************************************)
(* The rotation index mapping on one filter plane                          *)
(***************************************************************************)

\* A layer that takes no step.
LayerIdle ==
  InitLayer({ConvParam(<<1>>, <<>>, <<>>, <<>>, <<>>, <<>>, <<>>, 1, 1, FALSE,
                       "constant", <<>>)}, SetupShapes)

\* Largest K of the K x K planes turned.
MaxRotKernel == 2

\* The planes turned: all cells different, and every plane of 0s and 1s.
Planes(K) ==
  {[q \in 0 .. K * K - 1 |-> q + 1]} \cup [0 .. K * K - 1 -> {0, 1}]

\* One application of the 90-degree mapping of Reshape (r of line 330) to
\* the plane as it stands.
RotateQuarter ==
  /\ rot.steps < 4
  /\ \E junk \in [JunkOffsets(rot.K) -> JunkVals] :
       rot' = [rot EXCEPT
                 !.cur = RotatedKernel(1, rot.cur, <<1, 1, rot.K, rot.K>>, junk),
                 !.steps = @ + 1]
  /\ UNCHANGED <<layerVars, alph>>

\* The 180- and 270-degree mappings of Reshape (r of lines 333 and 336)
\* applied to the original plane.
RotateDirect ==
  /\ ~rot.direct
  /\ \E junk \in [JunkOffsets(rot.K) -> JunkVals] :
       rot' = [rot EXCEPT
                 !.half = RotatedKernel(2, rot.orig, <<1, 1, rot.K, rot.K>>, junk),
                 !.threeq = RotatedKernel(3, rot.orig, <<1, 1, rot.K, rot.K>>, junk),
                 !.direct = TRUE]
  /\ UNCHANGED <<layerVars, alph>>

InitRot ==
  /\ LayerIdle
  /\ alph = <<>>
  /\ \E K \in 1 .. MaxRotKernel : \E plane \in Planes(K) :
       rot = [K |-> K, orig |-> plane, cur |-> plane, steps |-> 0,
              half |-> plane, threeq |-> plane, direct |-> FALSE]
NextRot == RotateQuarter \/ RotateDirect
SpecRot == InitRot /\ [][NextRot]_vars

\* C5: for every K, four applications of the 90-degree mapping give back
\* the original plane, two give the plane of the 180-degree mapping and
\* three the plane of the 270-degree mapping.
C5_QuarterTurnsCompose ==
  /\ rot.steps = 4 => rot.cur = rot.orig
  /\ (rot.steps = 2 /\ rot.direct) => rot.cur = rot.half
  /\ (rot.steps = 3 /\ rot.direct) => rot.cur = rot.threeq

\* The same composition laws for the quarter turn that stays inside the
\* plane (TurnedIndex), on the planes explored.
TurnedQuarterTurnsCompose ==
  LET q(plane) == Turned(1, plane, rot.K)
  IN  /\ q(q(q(q(rot.orig)))) = rot.orig
      /\ q(q(rot.orig)) = Turned(2, rot.orig, rot.K)
      /\ q(q(q(rot.orig))) = Turned(3, rot.orig, rot.K)
      /\ Turned(0, rot.orig, rot.K) = rot.orig

(***************************************************************************)
(* The alpha builder on one angle                                          *)
(***************************************************************************)

\* angle <= 180: the upper end of the last bracket.
HalfTurn == 180

\* The alpha builder run on one location whose four alphas start at 0.
BuildAlpha ==
  /\ ~alph.applied
  /\ alph' = [alph EXCEPT
                !.applied = TRUE,
                !.pair = AlphaPair(alph.angle),
                !.out = AlphaWrite(Zeros(4), 0, 0, 0, 1, 1, alph.angle)]
  /\ UNCHANGED <<layerVars, rot>>

InitAlpha ==
  /\ LayerIdle
  /\ rot = <<>>
  /\ \E angle \in -HalfTurn .. HalfTurn :
       alph = [angle |-> angle, applied |-> FALSE,
               pair |-> [ch |-> <<>>, wt |-> <<>>], out |-> Zeros(4)]
NextAlpha == BuildAlpha
SpecAlpha == InitAlpha /\ [][NextAlpha]_vars

\* The reference orientation of rotation index i, in degrees.
RefAngle(i) == CASE i = 0 -> 0 [] i = 1 -> 90 [] i = 2 -> 180 [] i = 3 -> -90

\* The distance of two angles on the circle.
CircDist(a, b) ==
  LET d == Abs(a - b) % 360 IN Min(d, 360 - d)

\* C6: at a reference orientation (0, 90, 180, -90 for rotation index 0, 1,
\* 2, 3) the builder gives weight 1 to the channel of that index and 0 to
\* the other channel it writes; at any other angle the larger of the two
\* weights written belongs to a reference orientation nearest to the angle
\* on the circle.
C6_AlphaFavoursNearest ==
  alph.applied =>
    LET p == alph.pair
    IN  /\ Len(p.ch) = 2
        /\ \A i \in 0 .. 3 :
             alph.angle = RefAngle(i) =>
               \E j \in 1 .. 2 :
                 /\ p.ch[j] = i
                 /\ p.wt[j] = AlphaOne
                 /\ p.wt[3 - j] = 0
                 /\ alph.out[i] = AlphaOne
                 /\ alph.out[p.ch[3 - j]] = 0
        /\ (\A i \in 0 .. 3 : alph.angle # RefAngle(i)) =>
             \A j \in 1 .. 2 :
               p.wt[j] > p.wt[3 - j] =>
                 \A i \in 0 .. 3 :
                   CircDist(alph.angle, RefAngle(p.ch[j]))
                     <= CircDist(alph.angle, RefAngle(i))

\* The builder has run on 180 degrees, the closed end of the last bracket:
\* channel 2 has weight 1 and channel 1, the other one written, has 0.
C6_Witness ==
  /\ alph.applied
  /\ alph.angle = 180
  /\ alph.pair.ch = <<1, 2>>
  /\ alph.out[2] = AlphaOne
  /\ alph.out[1] = 0

(***************************************************************************)
(* The source indices of the rotation loop (checked under SpecRot)         *)
(***************************************************************************)

\* The destination positions of a K x K plane.
Cells(K) == {<<h, w>> : h \in 0 .. K - 1, w \in 0 .. K - 1}

\* Rotation i reads inside the K x K plane at every destination.
ReadsInsidePlane(i, K) ==
  \A c \in Cells(K) : SrcIndex(i, c[1], c[2], K, K) \in 0 .. K * K - 1

\* Rotation i reads a different source for every destination.
ReadsEachOnce(i, K) ==
  \A c, d \in Cells(K) :
    SrcIndex(i, c[1], c[2], K, K) = SrcIndex(i, d[1], d[2], K, K) => c = d

\* C11: for every K and each of the four rotations the source index of
\* every destination (h, w), 0 <= h, w < K, lies inside the plane, and the
\* mapping from destinations to sources is a bijection of the plane
\* (stated of the planes the mappings have been applied to).
C11_SourceIndexIsPermutation ==
  (rot.steps > 0 \/ rot.direct) =>
    \A i \in 0 .. num_rotations_ - 1 :
      ReadsInsidePlane(i, rot.K) /\ ReadsEachOnce(i, rot.K)

\* What does hold: the 0-degree mapping is the identity of the plane, and
\* each of the other three reads index K*K or beyond at some destination.
OnlyZeroRotationStaysInside ==
  /\ ReadsInsidePlane(0, rot.K) /\ ReadsEachOnce(0, rot.K)
  /\ \A i \in 1 .. num_rotations_ - 1 : ~ReadsInsidePlane(i, rot.K)

(***************************************************************************)
(* The Gaussian smoother: LayerSetUp, Reshape and Forward_cpu over padded  *)
(* geometries and primary inputs of 1, 2, 3 channels                       *)
(***************************************************************************)

\* Largest kernel size and most channels of the primary input explored.
MaxSmoothKernel == 2
MaxChannels == 3

\* Kernel 1 .. MaxSmoothKernel, stride 1 .. MaxStride, with and without
\* padding; constant (zero) weights, no bias.
SmoothParams ==
  {ConvParam(<<k>>, <<>>, <<>>, <<st>>, <<>>, <<>>, pd, 1, 1, FALSE, "constant", <<>>) :
     k \in 1 .. MaxSmoothKernel, st \in 1 .. MaxStride, pd \in {<<>>, <<MaxPad>>}}

\* The bottoms the layer is set up with: a primary input of c channels and
\* a gradient field of 2.
SmoothShapes ==
  {<<<<1, c, MaxSmoothKernel, MaxSmoothKernel>>,
     <<1, 2, MaxSmoothKernel, MaxSmoothKernel>>>> : c \in 1 .. MaxChannels}

\* Reshape with bottoms that pass its CHECKs, of batch size 1 or 2.
ReshapeSmooth ==
  /\ pc \in {"setup", "forwarded"}
  /\ iter < MaxIter
  /\ \E n \in 1 .. 2 :
       Reshape(<<n, channels_, MaxSmoothKernel, MaxSmoothKernel>>,
               <<n, 2, MaxSmoothKernel, MaxSmoothKernel>>)

InitSmooth == InitLayer(SmoothParams, SmoothShapes) /\ PureIdle
NextSmooth == LayerSetUp \/ ReshapeSmooth \/ ForwardLife
SpecSmooth == InitSmooth /\ [][NextSmooth]_vars

\* The un-clipped start of the window of output position p on axis i.
WindowStart(p, i) == p * stride_[i] - pad_[i]

\* The smoothed value of plane k (batch element k \div 2, channel k % 2) of
\* the gradient field at (ph, pw), every valid input pixel (h, w) of the
\* window weighted by the stencil entry at its offset from the un-clipped
\* start of the window.
SmoothedFromWindowStart(k, ph, pw) ==
  LET H == bottom[2].shape[3]
      W == bottom[2].shape[4]
      hs == WindowStart(ph, 1)
      ws == WindowStart(pw, 2)
      win == Window(Max(hs, 0), Min(hs + kernel_shape_[1], H),
                    Max(ws, 0), Min(ws + kernel_shape_[2], W))
  IN  Sigma([j \in 1 .. Len(win) |->
               gauss_kernel_[(win[j][1] - hs) * kernel_shape_[2] + (win[j][2] - ws)]
               * bottom[2].data[k * H * W + win[j][1] * W + win[j][2]]], 1)

\* The planes and positions of the smoothed output top[2].
SmoothedCells ==
  {<<k, ph, pw>> : k \in 0 .. 2 * top[3].shape[1] - 1,
                   ph \in 0 .. top[3].shape[3] - 1,
                   pw \in 0 .. top[3].shape[4] - 1}

SmoothedAt(c) ==
  top[3].data[(c[1] * top[3].shape[3] + c[2]) * top[3].shape[4] + c[3]]

\* C12: where the window of an output location extends past the top or
\* left border of the input, each valid pixel is weighted by the stencil
\* entry at its offset from the un-clipped start of the window (for a
\* layer whose primary input has 2 channels, so that the smoother visits
\* the planes of the gradient field).
C12_StencilFromWindowStart ==
  (pc = "forwarded" /\ channels_ = 2) =>
    \A c \in SmoothedCells :
      (WindowStart(c[2], 1) < 0 \/ WindowStart(c[3], 2) < 0) =>
        SmoothedAt(c) = SmoothedFromWindowStart(c[1], c[2], c[3])

\* What does hold: where the window starts inside the input, the pixels
\* are weighted by the stencil entry at their offset from its start.
StencilFromWindowStartInside ==
  (pc = "forwarded" /\ channels_ = 2) =>
    \A c \in SmoothedCells :
      (WindowStart(c[2], 1) >= 0 /\ WindowStart(c[3], 2) >= 0) =>
        SmoothedAt(c) = SmoothedFromWindowStart(c[1], c[2], c[3])

\* C13: whatever the channel count of the primary input, the smoother
\* processes exactly the 2 channels of the gradient field of every batch
\* element: the smoothed output is what its loops give when run over 2
\* channels per batch element, and nothing is read or written outside
\* the gradient field and the smoothed output.
C13_SmootherCoversGradientField ==
  pc \in {"forwarded", "crashed"} =>
    /\ ~kernels_read.reads_past
    /\ ~kernels_read.writes_past
    /\ \A junk \in JunkVals :
         top[3].data = GaussConvolveHelper(bottom[2], top[3], 2, gauss_kernel_,
                                           kernel_shape_, stride_, pad_, junk)

\* What does hold: the same for a primary input of 2 channels.
SmootherCoversGradientFieldOfTwoChannels ==
  (pc \in {"forwarded", "crashed"} /\ channels_ = 2) =>
    /\ ~kernels_read.reads_past
    /\ ~kernels_read.writes_past
    /\ \A junk \in JunkVals :
         top[3].data = GaussConvolveHelper(bottom[2], top[3], 2, gauss_kernel_,
                                           kernel_shape_, stride_, pad_, junk)

(***************************************************************************)
(* Claims about Backward_cpu (checked under Spec)                          *)
(***************************************************************************)

\* A step of Backward_cpu: the only step that takes a layer that has
\* completed Forward on to "backwarded", or to "crashed".
BackwardStep == pc = "forwarded" /\ pc' \in {"backwarded", "crashed"}

\* What Backward has no business with: the tops, the orientation map, the
\* alpha field, the rotated kernels, the stencil, the parameters' data and
\* the bottoms' data.
BackwardLeavesAlone ==
  /\ UNCHANGED <<top, orientation_map_, intermediate_kernel_alphas_,
                 intermediate_kernels_, gauss_kernel_>>
  /\ \A k \in DOMAIN blobs_ : blobs_'[k].data = blobs_[k].data
  /\ \A i \in 1 .. 2 : bottom'[i].data = bottom[i].data

\* C14: Backward, called with 2 bottoms and 3 tops, indexes no bottom
\* beyond the two, accumulates the weight gradient and (with bias) the
\* bias gradient from the diff of the primary output, writes the gradient
\* of the primary input when requested, from that diff and the base
\* weights, and leaves everything else as it is, the gradient field's
\* data and gradient included.
C14_BackwardUsesPrimaryOutputOnly ==
  [][BackwardStep =>
       /\ pc' = "backwarded"
       /\ blobs_'[1].diff
            = WeightDiff(blobs_[1].diff, bottom[1].data, TopDiffs[1], 0)
       /\ bias_term_ =>
            blobs_'[2].diff = BiasDiff(blobs_[2].diff, TopDiffs[1], 0)
       /\ bottom'[1].diff \in {bottom[1].diff,
                               BottomDiff(bottom[1].diff, TopDiffs[1], 0)}
       /\ bottom'[2] = bottom[2]
       /\ BackwardLeavesAlone]_vars

\* What does hold of a step of Backward: the frame, apart from the
\* gradient field's gradient; and the gradient of the primary input is
\* either left or computed from the primary output's diff and the base
\* weights.
BackwardFrame ==
  [][BackwardStep =>
       /\ BackwardLeavesAlone
       /\ bottom'[1].diff \in {bottom[1].diff,
                               BottomDiff(bottom[1].diff, TopDiffs[1], 0)}]_vars

(***************************************************************************)
(* Claims about the rotated kernel set after LayerSetUp (checked under     *)
(* Spec)                                                                   *)
(***************************************************************************)

\* The rotated kernel set holds num_rotations_ tensors of the size of the
\* weights.
FourKernelsOfWeightShape ==
  /\ Len(intermediate_kernels_) = num_rotations_
  /\ \A i \in 1 .. Len(intermediate_kernels_) :
       DOMAIN intermediate_kernels_[i] = DOMAIN blobs_[1].data

\* C15: after a successful LayerSetUp, with freshly initialised
\* parameters or with reloaded ones, once or repeated, the rotated kernel
\* set holds exactly four tensors of the weights' shape.
C15_SetUpLeavesFourKernels ==
  pc = "setup" => FourKernelsOfWeightShape

\* What does hold: it does on the fresh-initialisation path, also when
\* LayerSetUp is repeated; with reloaded parameters the set stays empty.
SetUpLeavesFourKernelsWhenFresh ==
  pc = "setup" =>
    IF param.preloaded = <<>> THEN FourKernelsOfWeightShape
    ELSE intermediate_kernels_ = <<>>

=============================================================================
